---- MODULE Spec2Model ----
(***************************************************************************)
(* The server side of examples/networklayer_tcp.c in its UA_MULTITHREADING *)
(* build: one network thread running ServerNetworkLayerTCP_getJobs, and    *)
(* worker threads that execute the jobs it returns and call the close      *)
(* callback of the connections the jobs carry.  The shared memory is the   *)
(* state field of every UA_Connection, the head layer->deletes of the      *)
(* to-be-deleted list and the descriptor table of the operating system.    *)
(* Every access to one of these is a step of its own; code between two     *)
(* such accesses that touches thread-private data only is part of the step *)
(* that precedes it.                                                       *)
(***************************************************************************)
EXTENDS Integers, Sequences, FiniteSets, TLC

\* bounds of the model
MaxConns == 3      \* connections accepted over a run
MaxFd == 2         \* descriptors the OS hands out to accepted sockets: 1..MaxFd
NumWorkers == 1    \* worker threads of the dispatcher
MaxRecv == 3       \* socket_recv calls made by getJobs over a run
MaxLen == 1        \* bytes a recv call or the framing collaborator returns
MaxAllocFail == 1  \* calls of malloc or realloc that fail over a run

serversockfd == 0  \* the listening descriptor
NULL == 0          \* no connection

Conns == 1..MaxConns
Fds == 1..MaxFd
Workers == 1..NumWorkers
Threads == 0..NumWorkers          \* thread 0 is the network thread

VARIABLES
    \* ServerNetworkLayerTCP
    mappings,      \* sequence of [connection, sockfd]; mappingsSize is its length
    deletes,       \* layer->deletes: the shared list, head first, as connections
    \* heap and operating system
    nConns,        \* connections allocated so far by ServerNetworkLayerTCP_add
    conns,         \* connection -> [state, sockfd]
    freed,         \* connections whose memory was freed
    fdOpen,        \* descriptors that are open sockets
    \* the frame of ServerNetworkLayerTCP_getJobs
    pc,            \* position of the network thread
    ldeletes,      \* the local variable deletes
    last_delete,   \* the nodes walked by the reattach loop, head first
    fdset,         \* layer->fdset
    resultsize,
    items,         \* "none" (not allocated), "null" (malloc failed), "alloc"
    itemsCap,      \* entries the allocated array holds
    jobs,          \* the jobs written to items[0..j-1]; j is the length
    idx,           \* the loop variable i of the read loop (1-based)
    \* close calls in progress, per thread
    cl,            \* thread -> [pc, conn, next]
    \* dispatcher
    wjob,          \* worker -> the job it executes, or NoJob
    pool,          \* jobs handed to the dispatcher and not yet taken
    epoch,         \* number of DelayedCall jobs handed out so far
    nRecv,         \* socket_recv calls made so far
    nFail,         \* allocations that failed so far
    \* history
    batch,         \* the list taken by the exchange of the current cycle
    drainCnt,      \* connection -> number of times an exchange took it from the list
    handed,        \* connections in a batch handed to a DelayedCall job
    closeCnt,      \* connection -> number of OS-level shutdown+close of its socket
    pushCnt,       \* connection -> number of insertions into layer->deletes
    freeCnt,       \* connection -> number of times it was freed
    uaf,           \* the kinds of access made to a connection already freed
    accepted,      \* connection added by the accept of the current cycle, or NULL
    reattached,    \* the current cycle ran the reattach code
    processed,     \* the socket_recv calls of the current cycle: [conn, rc, rcv, len]
    rsel,          \* what select returned in the current cycle
    newsockfd,     \* what accept returned in the current cycle, -1 when not called
    prevAccepted,  \* connection added by the previous cycle when only the listening
                   \* descriptor was ready and nothing was drained, or NULL
    \* a call of ClientNetworkLayerTCP_connect
    endpointUrl,   \* the address, a sequence of characters
    cpc,           \* position of the call, or how it returned
    connection,    \* the UA_Connection it returns: [state, sockfd, close]
    clientFds,     \* descriptors the call created that are open
    \* a call of socket_write
    wpc,           \* position of the call, or the status it returned
    buflen,        \* the parameter buflen; the buffer holds the bytes 1..buflen
    nWritten,      \* the local variable nWritten
    wire,          \* the bytes send has taken, in order
    \* calls of ClientNetworkLayerClose on the connection of the client
    ccl,           \* caller -> position of its call, "idle" outside a call
    callCnt,       \* calls begun so far
    shutCnt        \* number of OS-level shutdown+close made by these calls

vars == <<mappings, deletes, nConns, conns, freed, fdOpen, pc, ldeletes, last_delete,
          fdset, resultsize, items, itemsCap, jobs, idx, cl, wjob, pool, epoch, nRecv,
          nFail, batch, drainCnt, handed, closeCnt, pushCnt, freeCnt, uaf, accepted,
          reattached, processed, rsel, newsockfd, prevAccepted, endpointUrl, cpc,
          connection, clientFds, wpc, buflen, nWritten, wire, ccl, callCnt,
          shutCnt>>

layerVars == <<mappings, deletes>>
heapVars == <<nConns, conns, freed, fdOpen>>
frameVars == <<pc, ldeletes, last_delete, fdset, resultsize, items, itemsCap, jobs, idx>>
dispVars == <<wjob, pool, epoch>>
cntVars == <<nRecv, nFail>>
cycleVars == <<processed, rsel, newsockfd, prevAccepted>>
clientVars == <<endpointUrl, cpc, connection, clientFds>>
writeVars == <<wpc, buflen, nWritten, wire>>
closeVars == <<ccl, callCnt, shutCnt>>
otherVars == <<clientVars, writeVars, closeVars>>
histVars == <<batch, drainCnt, handed, closeCnt, pushCnt, freeCnt, accepted, reattached,
             cycleVars>>

NoJob == [id |-> 0, type |-> "None", conn |-> NULL, batch |-> <<>>, ep |-> 0]
NoCall == [pc |-> "none", conn |-> NULL, next |-> <<>>]

Range(s) == {s[k] : k \in 1..Len(s)}
mappingsSize == Len(mappings)
TableConns == {mappings[k].connection : k \in 1..Len(mappings)}
TableFds == {mappings[k].sockfd : k \in 1..Len(mappings)}

Min(S) == CHOOSE x \in S : \A y \in S : x <= y

Max(a, b) == IF a >= b THEN a ELSE b

\* the memory of connection c was already freed
Stale(c) == c \in freed

\* uaf after an access of the given kind to the connections S
Access(kind, S) == IF \E c \in S : Stale(c) THEN uaf \cup {kind} ELSE uaf

\* the number of times c occurs in the list d
Count(d, c) == Cardinality({k \in 1..Len(d) : d[k] = c})

\* what UA_Connection_completeMessages hands back for n received bytes: the
\* length of the complete messages it assembled (with bytes kept from earlier
\* calls), or -1, the length of UA_BYTESTRING_NULL, when no message is complete
CompleteMessages(n) == {-1} \cup (1..(MaxLen + 1))

\* layer->mappings[i] = layer->mappings[layer->mappingsSize] after mappingsSize--
Splice(m, i) == [k \in 1..(Len(m) - 1) |-> IF k = i THEN m[Len(m)] ELSE m[k]]

\* the index of the first entry of m with descriptor fd, Len(m)+1 when there is none
FindFd(m, fd) ==
    IF \E k \in 1..Len(m) : m[k].sockfd = fd
    THEN Min({k \in 1..Len(m) : m[k].sockfd = fd})
    ELSE Len(m) + 1

\* removeMappings: the table after the batch d was processed; hang when the
\* while loop never ends (the continue statement does not advance d)
RECURSIVE removeMappings(_, _)
removeMappings(m, d) ==
    IF d = <<>> THEN [hang |-> FALSE, mappings |-> m]
    ELSE LET i == FindFd(m, conns[Head(d)].sockfd)
         IN  IF i >= Len(m) + 1
             THEN [hang |-> TRUE, mappings |-> m]
             ELSE removeMappings(Splice(m, i), Tail(d))

\* setFDSet: the listening descriptor and the descriptor of every table entry
setFDSet(m) == {serversockfd} \cup {m[k].sockfd : k \in 1..Len(m)}

\* the layer ServerNetworkLayerTCP_new returns: no connection, an empty table
\* and an empty list; the network thread is outside getJobs
LayerInit ==
    /\ mappings = <<>>
    /\ deletes = <<>>
    /\ nConns = 0
    /\ conns = [c \in Conns |-> [state |-> "None", sockfd |-> 0]]
    /\ pc = "idle"

\* no call in progress, no job handed out, nothing recorded
RestInit ==
    /\ freed = {}
    /\ fdOpen = {}
    /\ ldeletes = <<>>
    /\ last_delete = [nodes |-> <<>>, next |-> <<>>]
    /\ fdset = {}
    /\ resultsize = 0
    /\ items = "none"
    /\ itemsCap = 0
    /\ jobs = <<>>
    /\ idx = 1
    /\ cl = [t \in Threads |-> NoCall]
    /\ wjob = [w \in Workers |-> NoJob]
    /\ pool = {}
    /\ epoch = 0
    /\ nRecv = 0
    /\ nFail = 0
    /\ batch = <<>>
    /\ drainCnt = [c \in Conns |-> 0]
    /\ handed = {}
    /\ closeCnt = [c \in Conns |-> 0]
    /\ pushCnt = [c \in Conns |-> 0]
    /\ freeCnt = [c \in Conns |-> 0]
    /\ uaf = {}
    /\ accepted = NULL
    /\ reattached = FALSE
    /\ processed = <<>>
    /\ rsel = 0
    /\ newsockfd = -1
    /\ prevAccepted = NULL

\* no call of ClientNetworkLayerTCP_connect
ClientOff ==
    /\ endpointUrl = <<>>
    /\ cpc = "off"
    /\ connection = [state |-> "None", sockfd |-> -1, close |-> "none"]
    /\ clientFds = {}

\* no call of socket_write
WriteOff ==
    /\ wpc = "off"
    /\ buflen = 0
    /\ nWritten = 0
    /\ wire = <<>>

\* no call of ClientNetworkLayerClose
ClientCloseOff ==
    /\ ccl = <<>>
    /\ callCnt = 0
    /\ shutCnt = 0

Init == LayerInit /\ RestInit /\ ClientOff /\ WriteOff /\ ClientCloseOff

(***************************************************************************)
(* ServerNetworkLayerTCP_getJobs, network thread                           *)
(***************************************************************************)

\* a call of malloc or realloc may fail
MayFail == nFail < MaxAllocFail

\* lines 336-347: exchange of layer->deletes with NULL, removeMappings, setFDSet
GetJobs_drain ==
    /\ pc = "idle"
    /\ LET r == removeMappings(mappings, deletes)
       IN  /\ mappings' = r.mappings
           /\ pc' = IF r.hang THEN "hang" ELSE "select"
           /\ fdset' = setFDSet(r.mappings)
    /\ ldeletes' = deletes
    /\ deletes' = <<>>
    /\ batch' = deletes
    /\ drainCnt' = [c \in Conns |-> drainCnt[c] + Count(deletes, c)]
    /\ uaf' = Access("removeMappings", Range(deletes))
    /\ UNCHANGED <<heapVars, last_delete, resultsize, items, itemsCap, jobs, idx, cl,
                   dispVars, cntVars, handed, closeCnt, pushCnt, freeCnt, accepted,
                   reattached, cycleVars>>
    /\ UNCHANGED otherVars

\* lines 348-349: select. It fails (-1, the set untouched) when interrupted or
\* when a watched descriptor is closed; otherwise the set becomes the ready
\* descriptors and their number is returned.
GetJobs_select ==
    /\ pc = "select"
    /\ \/ /\ resultsize' = -1
          /\ fdset' = fdset
       \/ /\ (fdset \ {serversockfd}) \subseteq fdOpen
          /\ \E S \in SUBSET fdset :
                /\ Cardinality(S \ {serversockfd}) <= MaxRecv - nRecv
                /\ fdset' = S
                /\ resultsize' = Cardinality(S)
    /\ rsel' = resultsize'
    /\ pc' = IF serversockfd \in fdset' THEN "accept" ELSE "alloc"
    /\ UNCHANGED <<layerVars, heapVars, ldeletes, last_delete, items, itemsCap, jobs, idx,
                   cl, dispVars, cntVars, batch, drainCnt, handed, closeCnt, pushCnt,
                   freeCnt, accepted, reattached, processed, newsockfd, prevAccepted, uaf>>
    /\ UNCHANGED otherVars

\* an accept step that enters the new connection into the table twice: the
\* variant the bound on the growth of the table per call must tell apart
ServerNetworkLayerTCP_add_Twice(fd) ==
    /\ nConns' = nConns + 1
    /\ conns' = [conns EXCEPT ![nConns + 1] = [state |-> "Opening", sockfd |-> fd]]
    /\ mappings' = mappings \o <<[connection |-> nConns + 1, sockfd |-> fd],
                                 [connection |-> nConns + 1, sockfd |-> fd]>>
    /\ accepted' = nConns + 1
    /\ UNCHANGED nFail

\* ServerNetworkLayerTCP_add, lines 244-267, for the descriptor fd
ServerNetworkLayerTCP_add(fd) ==
    \/ \* malloc or realloc failed: the table is unchanged
       /\ MayFail
       /\ nFail' = nFail + 1
       /\ UNCHANGED <<mappings, nConns, conns, accepted>>
    \/ /\ nConns' = nConns + 1
       /\ conns' = [conns EXCEPT ![nConns + 1] = [state |-> "Opening", sockfd |-> fd]]
       /\ mappings' = Append(mappings, [connection |-> nConns + 1, sockfd |-> fd])
       /\ accepted' = nConns + 1
       /\ UNCHANGED nFail

\* lines 352-363: the listening descriptor is set; accept returns the lowest
\* free descriptor or fails
GetJobs_accept ==
    /\ pc = "accept"
    /\ resultsize' = resultsize - 1
    /\ \/ /\ newsockfd' = -1
          /\ UNCHANGED <<mappings, nConns, conns, accepted, fdOpen, nFail>>
       \/ /\ Fds \ fdOpen # {}
          /\ nConns < MaxConns
          /\ newsockfd' = Min(Fds \ fdOpen)
          /\ fdOpen' = fdOpen \cup {newsockfd'}
          /\ ServerNetworkLayerTCP_add(newsockfd')
    /\ pc' = "alloc"
    /\ UNCHANGED <<deletes, freed, ldeletes, last_delete, fdset, items, itemsCap, jobs, idx,
                   cl, dispVars, nRecv, batch, drainCnt, handed, closeCnt, pushCnt, freeCnt,
                   uaf, reattached, processed, rsel, prevAccepted>>
    /\ UNCHANGED otherVars

\* an entry of the job array: a UA_Job, with the status and byte count of the
\* socket_recv call that produced it
Job(id, type, c, len, rcv, rc, b) ==
    [id |-> id, type |-> type, conn |-> c, len |-> len, rcv |-> rcv, rc |-> rc, batch |-> b]

\* the job as the dispatcher holds it, stamped with the epoch of its cycle
PoolJob(job, ep) ==
    [id |-> job.id, type |-> job.type, conn |-> job.conn, batch |-> job.batch, ep |-> ep]

\* lines 365-376: nothing to report, or malloc of the job array; when malloc
\* failed and a batch was drained, lines 379-383 walk the batch to its last node
GetJobs_alloc ==
    /\ pc = "alloc"
    /\ IF ldeletes = <<>> /\ resultsize <= 0
       THEN /\ pc' = "ret"
            /\ UNCHANGED <<resultsize, items, itemsCap, ldeletes, last_delete, reattached,
                           nFail>>
       ELSE /\ resultsize' = Max(resultsize, 0)
            /\ \/ /\ items' = "alloc"
                  /\ itemsCap' = Max(resultsize, 0) + (IF ldeletes # <<>> THEN 1 ELSE 0)
                  /\ pc' = "read"
                  /\ UNCHANGED <<ldeletes, last_delete, reattached, nFail>>
               \/ /\ MayFail
                  /\ nFail' = nFail + 1
                  /\ items' = "null"
                  /\ itemsCap' = 0
                  /\ IF ldeletes # <<>>
                     THEN /\ last_delete' = [nodes |-> ldeletes, next |-> <<>>]
                          /\ ldeletes' = <<>>
                          /\ reattached' = TRUE
                          /\ pc' = "reattach_read"
                     ELSE /\ pc' = "read"
                          /\ UNCHANGED <<ldeletes, last_delete, reattached>>
    /\ UNCHANGED <<layerVars, heapVars, fdset, jobs, idx, cl, dispVars, nRecv, batch,
                   drainCnt, handed, closeCnt, pushCnt, freeCnt, accepted, uaf, cycleVars>>
    /\ UNCHANGED otherVars

\* line 385: last_delete->next = layer->deletes
GetJobs_reattach_read ==
    /\ pc = "reattach_read"
    /\ last_delete' = [last_delete EXCEPT !.next = deletes]
    /\ pc' = "reattach_cas"
    /\ UNCHANGED <<layerVars, heapVars, ldeletes, fdset, resultsize, items, itemsCap, jobs,
                   idx, cl, dispVars, cntVars, histVars, uaf>>
    /\ UNCHANGED otherVars

\* the value uatomic_cmpxchg stores in layer->deletes at line 386: the local
\* variable deletes, which the walk of lines 380-383 left NULL
ReattachValue == ldeletes

\* lines 386-387: uatomic_cmpxchg(&layer->deletes, last_delete->next, deletes)
GetJobs_reattach_cas ==
    /\ pc = "reattach_cas"
    /\ IF deletes = last_delete.next
       THEN /\ deletes' = ReattachValue
            /\ pc' = "read"
       ELSE /\ pc' = "reattach_read"
            /\ UNCHANGED deletes
    /\ UNCHANGED <<mappings, heapVars, ldeletes, last_delete, fdset, resultsize, items,
                   itemsCap, jobs, idx, cl, dispVars, cntVars, histVars, uaf>>
    /\ UNCHANGED otherVars

\* the entries the read loop has still to visit: set in fdset, from index idx on
NextReady == {k \in idx..Len(mappings) : mappings[k].sockfd \in fdset}

\* the loop condition of line 397, skipping the entries that are not set
LoopGoes == Len(jobs) < resultsize /\ NextReady # {}

\* items[j] = job; j++ (lines 401-409, 414-417). Through the NULL pointer a failed
\* malloc returned, the write goes to address 0 and ends the process.
WriteItem(job, nexti, to) ==
    /\ processed' = Append(processed, [conn |-> job.conn, rc |-> job.rc, rcv |-> job.rcv,
                                       len |-> job.len])
    /\ IF items = "null"
       THEN /\ pc' = "crashed"
            /\ UNCHANGED <<jobs, idx>>
       ELSE /\ jobs' = Append(jobs, job)
            /\ idx' = nexti
            /\ pc' = to

\* the job of lines 400-408 for the status and buffer socket_recv returned
RecvJob(id, c, rc, n, len) ==
    IF rc = "Good" /\ len # -1
    THEN Job(id, "BinaryMessage", c, len, n, rc, <<>>)
    ELSE Job(id, "CloseConnection", c, len, n, rc, <<>>)

\* socket_recv (lines 64-94) on connection c, the outcomes that do not call
\* close: malloc fails; setsockopt fails on a closed descriptor; recv would
\* block; recv returns n > 0 bytes, handed to UA_Connection_completeMessages
RecvNoClose(id, c, fd) ==
    (IF MayFail THEN {RecvJob(id, c, "BadOutOfMemory", 0, 0)} ELSE {})
    \cup (IF fd \notin fdOpen
          THEN {RecvJob(id, c, "BadInternalError", 0, 0)}
          ELSE {RecvJob(id, c, "BadCommunicationError", 0, 0)}
               \cup UNION {{RecvJob(id, c, "Good", n, len) : len \in CompleteMessages(n)} :
                              n \in 1..MaxLen})

\* lines 397-410: one pass of the read loop for the next entry that is set
GetJobs_recv ==
    /\ pc = "read"
    /\ LoopGoes
    /\ LET k == Min(NextReady)
           c == mappings[k].connection
           fd == conns[c].sockfd
       IN  /\ nRecv' = nRecv + 1
           /\ uaf' = Access("socket_recv", {c})
           /\ \/ /\ \E job \in RecvNoClose(nRecv + 1, c, fd) :
                       /\ WriteItem(job, k + 1, "read")
                       /\ nFail' = IF job.rc = "BadOutOfMemory" THEN nFail + 1 ELSE nFail
                 /\ UNCHANGED cl
              \/ \* recv returned 0 or failed: connection->close(connection)
                 /\ fd \in fdOpen
                 /\ cl' = [cl EXCEPT ![0] = [pc |-> "xchg", conn |-> c, next |-> <<>>]]
                 /\ pc' = "recv_close"
                 /\ idx' = k
                 /\ UNCHANGED <<jobs, nFail, processed>>
    /\ UNCHANGED <<layerVars, heapVars, ldeletes, last_delete, fdset, resultsize, items,
                   itemsCap, dispVars, batch, drainCnt, handed, closeCnt, pushCnt, freeCnt,
                   accepted, reattached, rsel, newsockfd, prevAccepted>>
    /\ UNCHANGED otherVars

\* a producer that writes the DelayedCall job in front of the jobs of the read
\* loop: the variant the ordering property of the job array must tell apart
AddDelayed_First(js, d) == <<d>> \o js

\* the job array with the DelayedCall job d added, lines 414-417
AddDelayed(js, d) == Append(js, d)

\* lines 412-418: the DelayedCall job for the drained batch
GetJobs_delayed ==
    /\ pc = "read"
    /\ ~LoopGoes
    /\ IF ldeletes # <<>>
       THEN IF items = "null"
            THEN /\ pc' = "crashed"
                 /\ UNCHANGED jobs
            ELSE /\ jobs' = AddDelayed(jobs, Job(0, "DelayedCall", NULL, 0, 0, "", ldeletes))
                 /\ pc' = "ret"
       ELSE /\ pc' = "ret"
            /\ UNCHANGED jobs
    /\ UNCHANGED <<layerVars, heapVars, ldeletes, last_delete, fdset, resultsize, items,
                   itemsCap, idx, cl, dispVars, cntVars, histVars, uaf>>
    /\ UNCHANGED otherVars

\* lines 366-367 and 420-426: getJobs returns the array and its count to the
\* dispatcher; the frame of the call is gone
GetJobs_return ==
    /\ pc = "ret"
    /\ LET withD == \E k \in 1..Len(jobs) : jobs[k].type = "DelayedCall"
           ep == IF withD THEN epoch + 1 ELSE epoch
       IN  /\ epoch' = ep
           /\ pool' = pool \cup {PoolJob(jobs[k], ep) : k \in 1..Len(jobs)}
           /\ handed' = handed \cup UNION {Range(jobs[k].batch) : k \in 1..Len(jobs)}
    /\ pc' = "idle"
    /\ ldeletes' = <<>>
    /\ last_delete' = [nodes |-> <<>>, next |-> <<>>]
    /\ fdset' = {}
    /\ resultsize' = 0
    /\ items' = "none"
    /\ itemsCap' = 0
    /\ jobs' = <<>>
    /\ idx' = 1
    /\ batch' = <<>>
    /\ prevAccepted' = IF rsel = 1 /\ fdset = {serversockfd} /\ batch = <<>>
                       THEN accepted ELSE NULL
    /\ accepted' = NULL
    /\ reattached' = FALSE
    /\ processed' = <<>>
    /\ rsel' = 0
    /\ newsockfd' = -1
    /\ UNCHANGED <<layerVars, heapVars, cl, wjob, cntVars, drainCnt, closeCnt, pushCnt,
                   freeCnt, uaf>>
    /\ UNCHANGED otherVars

(***************************************************************************)
(* ServerNetworkLayerTCP_closeConnection, called by the network thread     *)
(* from socket_recv and by the workers from a job                          *)
(***************************************************************************)

\* the process runs: no write through a NULL job array has ended it
Alive == pc # "crashed"

\* what a read of connection->state returns: anything once the memory is freed
ReadState(c) == IF Stale(c) THEN {"Opening", "Closed"} ELSE {conns[c].state}

\* a close that stores the initial state: the variant the monotonicity of the
\* connection state must tell apart
UA_CONNECTION_OPENING == "Opening"

\* the value line 97 of socket_close stores in connection->state
UA_CONNECTION_CLOSED == "Closed"

\* the close call of thread t returns to its caller: socket_recv returns
\* BADCONNECTIONCLOSED to line 400 of getJobs, a worker has completed its job
Return(t) ==
    /\ cl' = [cl EXCEPT ![t] = NoCall]
    /\ IF t = 0
       THEN /\ WriteItem(RecvJob(nRecv, cl[t].conn, "BadConnectionClosed", 0, 0),
                         idx + 1, "read")
            /\ UNCHANGED wjob
       ELSE /\ wjob' = [wjob EXCEPT ![t] = NoJob]
            /\ UNCHANGED <<pc, jobs, idx, processed>>

\* the close call of thread t goes on at position p
Goto(t, p, nxt) ==
    /\ cl' = [cl EXCEPT ![t] = [pc |-> p, conn |-> cl[t].conn, next |-> nxt]]
    /\ UNCHANGED <<pc, jobs, idx, wjob, processed>>

\* lines 217-218: uatomic_xchg(&connection->state, UA_CONNECTION_CLOSED)
Close_xchg(t) ==
    /\ Alive
    /\ cl[t].pc = "xchg"
    /\ LET c == cl[t].conn
       IN  /\ uaf' = Access("close", {c})
           /\ conns' = [conns EXCEPT ![c].state = "Closed"]
           /\ \E old \in ReadState(c) :
                 IF old = "Closed" THEN Return(t) ELSE Goto(t, "socket_close", <<>>)
    /\ UNCHANGED <<layerVars, nConns, freed, fdOpen, ldeletes, last_delete, fdset,
                   resultsize, items, itemsCap, pool, epoch, cntVars, batch, drainCnt, handed, closeCnt, pushCnt, freeCnt, accepted, reattached, rsel,
                   newsockfd, prevAccepted>>
    /\ UNCHANGED otherVars

\* line 224, socket_close (lines 96-100), and the malloc of line 226
Close_socket_close(t) ==
    /\ Alive
    /\ cl[t].pc = "socket_close"
    /\ LET c == cl[t].conn
       IN  /\ uaf' = Access("close", {c})
           /\ conns' = [conns EXCEPT ![c].state = UA_CONNECTION_CLOSED]
           /\ fdOpen' = fdOpen \ {conns[c].sockfd}
           /\ closeCnt' = [closeCnt EXCEPT ![c] = @ + 1]
    /\ \/ /\ Goto(t, "push_read", <<>>)
          /\ UNCHANGED nFail
       \/ \* malloc failed: return without a node in the list
          /\ MayFail
          /\ nFail' = nFail + 1
          /\ Return(t)
    /\ UNCHANGED <<layerVars, nConns, freed, ldeletes, last_delete, fdset, resultsize,
                   items, itemsCap, pool, epoch, nRecv, batch, drainCnt, handed, pushCnt,
                   freeCnt, accepted, reattached, rsel, newsockfd, prevAccepted>>
    /\ UNCHANGED otherVars

\* line 233: d->next = layer->deletes
Close_push_read(t) ==
    /\ Alive
    /\ cl[t].pc = "push_read"
    /\ Goto(t, "push_cas", deletes)
    /\ UNCHANGED <<layerVars, heapVars, ldeletes, last_delete, fdset, resultsize, items,
                   itemsCap, pool, epoch, cntVars, batch, drainCnt, handed, closeCnt, pushCnt, freeCnt, accepted, reattached, rsel,
                   newsockfd, prevAccepted, uaf>>
    /\ UNCHANGED otherVars

\* lines 234-235: uatomic_cmpxchg(&layer->deletes, d->next, d)
Close_push_cas(t) ==
    /\ Alive
    /\ cl[t].pc = "push_cas"
    /\ IF deletes = cl[t].next
       THEN /\ deletes' = <<cl[t].conn>> \o cl[t].next
            /\ pushCnt' = [pushCnt EXCEPT ![cl[t].conn] = @ + 1]
            /\ Return(t)
       ELSE /\ Goto(t, "push_read", <<>>)
            /\ UNCHANGED <<deletes, pushCnt>>
    /\ UNCHANGED <<mappings, heapVars, ldeletes, last_delete, fdset, resultsize, items,
                   itemsCap, pool, epoch, cntVars, batch, drainCnt, handed, closeCnt, freeCnt,
                   accepted, reattached, rsel, newsockfd, prevAccepted, uaf>>
    /\ UNCHANGED otherVars

(***************************************************************************)
(* The dispatcher: workers execute the jobs getJobs returned               *)
(***************************************************************************)

\* the jobs the dispatcher still holds: waiting, or in a worker
Outstanding == pool \cup {wjob[w] : w \in {x \in Workers : wjob[x] # NoJob}}

\* a DelayedCall job runs only when every job of an earlier cycle has completed
DelayedReady(job) == \A o \in Outstanding : o.ep >= job.ep

\* freeConnections, lines 309-317, run by worker w for a DelayedCall job
Worker_freeConnections(w) ==
    /\ Alive
    /\ wjob[w] = NoJob
    /\ \E job \in pool :
          /\ job.type = "DelayedCall"
          /\ DelayedReady(job)
          /\ pool' = pool \ {job}
          /\ uaf' = Access("freeConnections", Range(job.batch))
          /\ freed' = freed \cup Range(job.batch)
          /\ freeCnt' = [c \in Conns |-> freeCnt[c] + Count(job.batch, c)]
    /\ UNCHANGED <<layerVars, nConns, conns, fdOpen, frameVars, cl, wjob, epoch, cntVars,
                   batch, drainCnt, handed, closeCnt, pushCnt, accepted, reattached,
                   cycleVars>>
    /\ UNCHANGED otherVars

\* worker w processes a BinaryMessage job without closing its connection
Worker_process(w) ==
    /\ Alive
    /\ wjob[w] = NoJob
    /\ \E job \in pool :
          /\ job.type = "BinaryMessage"
          /\ pool' = pool \ {job}
          /\ uaf' = Access("job", {job.conn})
    /\ UNCHANGED <<layerVars, heapVars, frameVars, cl, wjob, epoch, cntVars, histVars>>
    /\ UNCHANGED otherVars

\* worker w takes a CloseConnection job, or a BinaryMessage job it answers by
\* closing, and calls connection->close(connection)
Worker_close(w) ==
    /\ Alive
    /\ wjob[w] = NoJob
    /\ \E job \in pool :
          /\ job.type \in {"BinaryMessage", "CloseConnection"}
          /\ pool' = pool \ {job}
          /\ wjob' = [wjob EXCEPT ![w] = job]
          /\ cl' = [cl EXCEPT ![w] = [pc |-> "xchg", conn |-> job.conn, next |-> <<>>]]
          /\ uaf' = Access("job", {job.conn})
    /\ UNCHANGED <<layerVars, heapVars, frameVars, epoch, cntVars, histVars>>
    /\ UNCHANGED otherVars

(***************************************************************************)
(* ServerNetworkLayerTCP_stop and ServerNetworkLayerTCP_deleteMembers, run *)
(* by the network thread once polling has ended                            *)
(***************************************************************************)

\* lines 442-445: one CloseConnection job for every entry of the table m
StopJobs(m) ==
    [k \in 1..Len(m) |-> Job(0 - k, "CloseConnection", m[k].connection, 0, 0, "", <<>>)]

\* lines 430-445: exchange of layer->deletes with NULL, removeMappings, malloc
\* of the job array and one job per entry; the list taken stays in the local
\* variable deletes
ServerNetworkLayerTCP_stop ==
    /\ pc = "idle"
    /\ LET r == removeMappings(mappings, deletes)
       IN  /\ mappings' = r.mappings
           /\ IF r.hang
              THEN /\ pc' = "hang"
                   /\ UNCHANGED <<items, itemsCap, jobs, nFail>>
              ELSE /\ pc' = "stop_ret"
                   /\ \/ /\ items' = "alloc"
                         /\ itemsCap' = Len(r.mappings)
                         /\ jobs' = StopJobs(r.mappings)
                         /\ UNCHANGED nFail
                      \/ \* line 441: malloc failed, return 0
                         /\ MayFail
                         /\ nFail' = nFail + 1
                         /\ items' = "null"
                         /\ itemsCap' = 0
                         /\ UNCHANGED jobs
    /\ ldeletes' = deletes
    /\ deletes' = <<>>
    /\ batch' = deletes
    /\ drainCnt' = [c \in Conns |-> drainCnt[c] + Count(deletes, c)]
    /\ uaf' = Access("removeMappings", Range(deletes))
    /\ UNCHANGED <<heapVars, last_delete, fdset, resultsize, idx, cl, dispVars, nRecv,
                   handed, closeCnt, pushCnt, freeCnt, accepted, reattached, cycleVars>>
    /\ UNCHANGED otherVars

\* lines 449-450: stop returns the array and its count to the dispatcher; the
\* frame of the call, the local variable deletes included, is gone
Stop_return ==
    /\ pc = "stop_ret"
    /\ pool' = pool \cup {PoolJob(jobs[k], epoch) : k \in 1..Len(jobs)}
    /\ pc' = "stopped"
    /\ ldeletes' = <<>>
    /\ items' = "none"
    /\ itemsCap' = 0
    /\ jobs' = <<>>
    /\ batch' = <<>>
    /\ UNCHANGED <<layerVars, heapVars, last_delete, fdset, resultsize, idx, cl, wjob,
                   epoch, cntVars, drainCnt, handed, closeCnt, pushCnt, freeCnt, uaf,
                   accepted, reattached, cycleVars>>
    /\ UNCHANGED otherVars

\* the dispatcher has executed every job it was handed
Quiescent == pool = {} /\ \A w \in Workers : wjob[w] = NoJob

\* lines 454-465, after the jobs of stop were executed: removeMappings and
\* freeConnections on layer->deletes, then free of the connection of every
\* entry left in the table
ServerNetworkLayerTCP_deleteMembers ==
    /\ pc = "stopped"
    /\ Quiescent
    /\ LET r == removeMappings(mappings, deletes)
           left == r.mappings
       IN  IF r.hang
           THEN /\ pc' = "hang"
                /\ mappings' = left
                /\ uaf' = Access("removeMappings", Range(deletes))
                /\ UNCHANGED <<deletes, freed, freeCnt>>
           ELSE /\ pc' = "deleted"
                /\ mappings' = <<>>
                /\ deletes' = <<>>
                /\ uaf' = Access("deleteMembers", Range(deletes))
                /\ freed' = freed \cup Range(deletes)
                                  \cup {left[k].connection : k \in 1..Len(left)}
                /\ freeCnt' = [c \in Conns |->
                                  freeCnt[c] + Count(deletes, c)
                                      + Cardinality({k \in 1..Len(left) :
                                                        left[k].connection = c})]
    /\ UNCHANGED <<nConns, conns, fdOpen, ldeletes, last_delete, fdset, resultsize, items,
                   itemsCap, jobs, idx, cl, dispVars, cntVars, batch, drainCnt, handed,
                   closeCnt, pushCnt, accepted, reattached, cycleVars>>
    /\ UNCHANGED otherVars

Next ==
    \/ GetJobs_drain
    \/ GetJobs_select
    \/ GetJobs_accept
    \/ GetJobs_alloc
    \/ GetJobs_reattach_read
    \/ GetJobs_reattach_cas
    \/ GetJobs_recv
    \/ GetJobs_delayed
    \/ GetJobs_return
    \/ \E t \in Threads : Close_xchg(t)
    \/ \E t \in Threads : Close_socket_close(t)
    \/ \E t \in Threads : Close_push_read(t)
    \/ \E t \in Threads : Close_push_cas(t)
    \/ \E w \in Workers : Worker_freeConnections(w)
    \/ \E w \in Workers : Worker_process(w)
    \/ \E w \in Workers : Worker_close(w)

Spec == Init /\ [][Next]_vars

\* the whole life of the layer: polling, then stop, the jobs of stop, teardown
LifeNext ==
    \/ Next
    \/ ServerNetworkLayerTCP_stop
    \/ Stop_return
    \/ ServerNetworkLayerTCP_deleteMembers

LifeSpec == Init /\ [][LifeNext]_vars

(***************************************************************************)
(* removeMappings on its own: any table, any list                          *)
(***************************************************************************)

\* the sequences of distinct connections
DistinctSeqs ==
    UNION {{q \in [1..n -> Conns] : \A i, j \in 1..n : q[i] = q[j] => i = j} :
              n \in 0..MaxConns}

\* the table ServerNetworkLayerTCP_add builds for the connections q (line 264)
TableOf(q) == [k \in 1..Len(q) |-> [connection |-> q[k], sockfd |-> conns[q[k]].sockfd]]

\* closed connections on any descriptors, a table of some of them and a list
\* of some of them
RemoveInit ==
    /\ conns \in {[c \in Conns |-> [state |-> "Closed", sockfd |-> f[c]]] :
                     f \in [Conns -> Fds]}
    /\ mappings \in {TableOf(q) : q \in DistinctSeqs}
    /\ deletes \in DistinctSeqs
    /\ nConns = MaxConns
    /\ pc = "remove"
    /\ RestInit /\ ClientOff /\ WriteOff /\ ClientCloseOff

\* a call removeMappings(layer, layer->deletes), line 456
RemoveMappings_call ==
    /\ pc = "remove"
    /\ LET r == removeMappings(mappings, deletes)
       IN  /\ mappings' = r.mappings
           /\ pc' = IF r.hang THEN "hang" ELSE "removed"
    /\ ldeletes' = deletes
    /\ batch' = deletes
    /\ UNCHANGED <<deletes, heapVars, last_delete, fdset, resultsize, items, itemsCap, jobs,
                   idx, cl, dispVars, cntVars, drainCnt, handed, closeCnt, pushCnt, freeCnt,
                   uaf, accepted, reattached, cycleVars>>
    /\ UNCHANGED otherVars

RemoveNext == RemoveMappings_call

RemoveSpec == RemoveInit /\ [][RemoveNext]_vars

(***************************************************************************)
(* ClientNetworkLayerTCP_connect: one call, for any address                *)
(***************************************************************************)

\* every variable of the server side
serverVars == <<layerVars, heapVars, frameVars, cl, dispVars, cntVars, histVars, uaf>>

\* the connection UA_Connection_init leaves: the initial state, no descriptor,
\* no callback
UA_Connection_init == [state |-> "None", sockfd |-> -1, close |-> "none"]

\* "opc.tcp://", the ten characters line 548 compares with
Scheme == <<"o", "p", "c", ".", "t", "c", "p", ":", "/", "/">>

\* the first ten characters of an address with another scheme
OtherScheme == <<"h", "t", "t", "p", ":", "/", "/", "h", "o", "s">>

\* the characters of the rest of an address
TailChars == {"h", ":", "0", "1"}

\* the rests of at most MaxTail characters
MaxTail == 3
Tails == UNION {[1..n -> TailChars] : n \in 0..MaxTail}

\* n times the character h
Pad(n) == [i \in 1..n |-> "h"]

\* the addresses of the calls: both schemes with every rest, the beginnings of
\* the scheme, an address of 511 and one of 512 characters with port 1, and
\* port 65536
Urls ==
    {Scheme \o t : t \in Tails}
        \cup {OtherScheme \o t : t \in Tails}
        \cup {SubSeq(Scheme, 1, k) : k \in 0..9}
        \cup {Scheme \o Pad(n - 12) \o <<":", "1">> : n \in {511, 512}}
        \cup {Scheme \o <<"h", ":", "6", "5", "5", "3", "6">>}

\* the value of a decimal digit, -1 for any other character
Digit(c) ==
    CASE c = "0" -> 0 [] c = "1" -> 1 [] c = "3" -> 3 [] c = "5" -> 5 [] c = "6" -> 6
      [] OTHER -> -1

\* atoi on the characters of s from position k on: the value of the digits up
\* to the first character that is none
RECURSIVE AtoiFrom(_, _, _)
AtoiFrom(s, k, acc) ==
    IF k > Len(s) \/ Digit(s[k]) < 0 THEN acc
    ELSE AtoiFrom(s, k + 1, acc * 10 + Digit(s[k]))

atoi(s, k) == AtoiFrom(s, k, 0)

\* an address length that passes no test for the upper limit
UrlSizeShortOnly(n) == n < 11

\* line 544: urlLength < 11 || urlLength >= 512
UrlSizeInvalid(n) == n < 11 \/ n >= 512

\* lines 553-560: the position (counted from 1) of the first colon the loop
\* finds, from endpointUrl[9] up to endpointUrl[urlLength-2]; 0 when it finds none
PortPos(url) ==
    LET found == {q \in 10..(Len(url) - 1) : url[q] = ":"}
    IN  IF found = {} THEN 0 ELSE Min(found)

\* lines 554-557: UA_UInt16 port = atoi(&endpointUrl[portpos+1]), 0 without colon
Port(url) == IF PortPos(url) = 0 THEN 0 ELSE atoi(url, PortPos(url) + 1) % 65536

ConnectInit ==
    /\ endpointUrl \in Urls
    /\ cpc = "parse"
    /\ connection = UA_Connection_init
    /\ clientFds = {}
    /\ LayerInit /\ RestInit /\ WriteOff /\ ClientCloseOff

\* lines 543-569: the tests of the address
Connect_parse ==
    /\ cpc = "parse"
    /\ cpc' = IF UrlSizeInvalid(Len(endpointUrl)) THEN "fail_size"
              ELSE IF SubSeq(endpointUrl, 1, 10) # Scheme THEN "fail_scheme"
              ELSE IF Port(endpointUrl) = 0 THEN "fail_port"
              ELSE "socket"
    /\ UNCHANGED <<endpointUrl, connection, clientFds, serverVars, writeVars, closeVars>>

\* lines 577-581: connection.sockfd = socket(...)
Connect_socket ==
    /\ cpc = "socket"
    /\ \/ /\ connection' = [connection EXCEPT !.sockfd = -1]
          /\ cpc' = "fail_socket"
          /\ UNCHANGED clientFds
       \/ \E fd \in Fds :
             /\ fd = Min(Fds \ clientFds)
             /\ connection' = [connection EXCEPT !.sockfd = fd]
             /\ clientFds' = clientFds \cup {fd}
             /\ cpc' = "resolve"
    /\ UNCHANGED <<endpointUrl, serverVars, writeVars, closeVars>>

\* lines 582-586: gethostbyname
Connect_gethostbyname ==
    /\ cpc = "resolve"
    /\ cpc' \in {"fail_dns", "connect"}
    /\ UNCHANGED <<endpointUrl, connection, clientFds, serverVars, writeVars, closeVars>>

\* lines 592-603: connect, and on success the state and the callbacks
Connect_connect ==
    /\ cpc = "connect"
    /\ \/ /\ cpc' = "fail_connect"
          /\ UNCHANGED connection
       \/ /\ cpc' = "ok"
          /\ connection' = [connection EXCEPT !.state = "Opening",
                                              !.close = "ClientNetworkLayerClose"]
    /\ UNCHANGED <<endpointUrl, clientFds, serverVars, writeVars, closeVars>>

ConnectNext ==
    \/ Connect_parse
    \/ Connect_socket
    \/ Connect_gethostbyname
    \/ Connect_connect

ConnectSpec == ConnectInit /\ [][ConnectNext]_vars

(***************************************************************************)
(* ClientNetworkLayerClose: calls of the close callback on the connection  *)
(* ClientNetworkLayerTCP_connect returned, each from a thread of its own   *)
(***************************************************************************)

\* threads that call the close callback, and the calls they make over a run
NumClosers == 2
MaxCloseCalls == 4
Closers == 1..NumClosers

\* an open connection on some descriptor, as connect returned it or as the
\* stack set it since; no caller is in the callback
ClientCloseInit ==
    /\ endpointUrl = <<>>
    /\ cpc = "ok"
    /\ \E st \in {"Opening", "Open"}, fd \in Fds :
          /\ connection = [state |-> st, sockfd |-> fd, close |-> "ClientNetworkLayerClose"]
          /\ clientFds = {fd}
    /\ ccl = [t \in Closers |-> "idle"]
    /\ callCnt = 0
    /\ shutCnt = 0
    /\ LayerInit /\ RestInit /\ WriteOff

\* connection->close(connection), as socket_recv calls it at lines 75 and 87
\* and as the owner of the connection calls it
ClientClose_call(t) ==
    /\ ccl[t] = "idle"
    /\ callCnt < MaxCloseCalls
    /\ callCnt' = callCnt + 1
    /\ ccl' = [ccl EXCEPT ![t] = "check"]
    /\ UNCHANGED <<clientVars, shutCnt, serverVars, writeVars>>

\* lines 522-523: if(connection->state == UA_CONNECTION_CLOSED) return;
ClientClose_check(t) ==
    /\ ccl[t] = "check"
    /\ ccl' = [ccl EXCEPT ![t] = IF connection.state = "Closed" THEN "idle" ELSE "set"]
    /\ UNCHANGED <<clientVars, callCnt, shutCnt, serverVars, writeVars>>

\* line 524: connection->state = UA_CONNECTION_CLOSED
ClientClose_set(t) ==
    /\ ccl[t] = "set"
    /\ connection' = [connection EXCEPT !.state = "Closed"]
    /\ ccl' = [ccl EXCEPT ![t] = "socket_close"]
    /\ UNCHANGED <<endpointUrl, cpc, clientFds, callCnt, shutCnt, serverVars, writeVars>>

\* line 525, socket_close (lines 96-100): the state once more, shutdown and
\* CLOSESOCKET of connection->sockfd, and the return of the call. Line 527 is
\* not part of this build.
ClientClose_socket_close(t) ==
    /\ ccl[t] = "socket_close"
    /\ connection' = [connection EXCEPT !.state = "Closed"]
    /\ clientFds' = clientFds \ {connection.sockfd}
    /\ shutCnt' = shutCnt + 1
    /\ ccl' = [ccl EXCEPT ![t] = "idle"]
    /\ UNCHANGED <<endpointUrl, cpc, callCnt, serverVars, writeVars>>

ClientCloseNext ==
    \/ \E t \in Closers : ClientClose_call(t)
    \/ \E t \in Closers : ClientClose_check(t)
    \/ \E t \in Closers : ClientClose_set(t)
    \/ \E t \in Closers : ClientClose_socket_close(t)

ClientCloseSpec == ClientCloseInit /\ [][ClientCloseNext]_vars

(***************************************************************************)
(* socket_write: one call, for any buffer length                           *)
(***************************************************************************)

\* bytes of the longest buffer written
MaxBuf == 5

\* the first n bytes of the buffer, buf->data[0..n-1]
Bytes(n) == [i \in 1..n |-> i]

WriteInit ==
    /\ buflen \in 0..MaxBuf
    /\ wpc = "send"
    /\ nWritten = 0
    /\ wire = <<>>
    /\ LayerInit /\ RestInit /\ ClientOff /\ ClientCloseOff

\* lines 43-56: one pass of the inner loop, send(sockfd, buf->data, buflen).
\* The socket takes the first n of the bytes offered, or send fails: with
\* EINTR or EAGAIN the call is repeated, with any other error line 53 returns.
Write_send ==
    /\ wpc = "send"
    /\ nWritten < buflen
    /\ \/ \E n \in 1..buflen :
             /\ wire' = wire \o Bytes(n)
             /\ nWritten' = nWritten + n
             /\ UNCHANGED wpc
       \/ UNCHANGED <<wpc, nWritten, wire>>
       \/ /\ wpc' = "BadConnectionClosed"
          /\ UNCHANGED <<nWritten, wire>>
    /\ UNCHANGED <<buflen, serverVars, clientVars, closeVars>>

\* lines 43 and 61: nWritten >= buflen ends the loop, return UA_STATUSCODE_GOOD
Write_return ==
    /\ wpc = "send"
    /\ nWritten >= buflen
    /\ wpc' = "Good"
    /\ UNCHANGED <<buflen, nWritten, wire, serverVars, clientVars, closeVars>>

WriteNext ==
    \/ Write_send
    \/ Write_return

WriteSpec == WriteInit /\ [][WriteNext]_vars

(***************************************************************************)
(* Properties                                                              *)
(***************************************************************************)

\* the positions of the DelayedCall jobs in the job array
DelayedIdx == {k \in 1..Len(jobs) : jobs[k].type = "DelayedCall"}

\* the BinaryMessage and CloseConnection jobs of the job array, in order
DataJobs == SelectSeq(jobs, LAMBDA jb : jb.type # "DelayedCall")

\* the connections of the batches handed to a DelayedCall job so far, the one
\* in the job array of the current cycle included
InDelayedBatch == handed \cup UNION {Range(jobs[k].batch) : k \in DelayedIdx}

\* the state of c is Closed and no close call on c is in progress
CloseReturned(c) == conns[c].state = "Closed" /\ \A t \in Threads : cl[t].conn # c

\* C1: no job and no close callback accesses a connection after the
\* freeConnections job of its batch has run, and no BinaryMessage or
\* CloseConnection job returned in the cycle of a DelayedCall job, or in a later
\* cycle, references a connection of that job's batch.
C1_NoAccessAfterFree ==
    /\ uaf \cap {"job", "close"} = {}
    /\ pc = "ret" => \A k \in 1..Len(jobs) :
                        jobs[k].type # "DelayedCall" => jobs[k].conn \notin InDelayedBatch

\* C2: whatever the number of close calls on a connection, its socket is shut
\* down and closed exactly once and the connection is inserted into the
\* to-be-deleted list exactly once.
C2_CloseExactlyOnce ==
    \A c \in Conns :
        /\ closeCnt[c] <= 1
        /\ pushCnt[c] <= 1
        /\ CloseReturned(c) => closeCnt[c] = 1 /\ pushCnt[c] = 1

\* C3: no node pushed onto layer->deletes is lost or duplicated: every push of a
\* connection is either still in the shared list or was taken by exactly one
\* exchange of getJobs.
C3_NoNodeLostOrDuplicated ==
    \A c \in Conns : pushCnt[c] = Count(deletes, c) + drainCnt[c]

\* C4: a connection that an exchange of getJobs took from the list has no entry
\* in the table from the rebuild of the watch set in that call on.
C4_DrainedNotInTable ==
    \A c \in Conns : drainCnt[c] >= 1 => c \notin TableConns

\* C5: when getJobs returns after the allocation of the job array failed with a
\* batch drained, every node of the batch and every node pushed since the
\* exchange is reachable from layer->deletes.
C5_ReattachKeepsBatch ==
    (pc = "ret" /\ reattached) =>
        \A c \in Conns :
            (c \in Range(batch) \/ pushCnt[c] > drainCnt[c]) => c \in Range(deletes)

\* the DelayedCall jobs not yet run whose batch holds c: those of the job array
\* of the current cycle and those handed to the dispatcher
PendingFree(c) ==
    {k \in DelayedIdx : c \in Range(jobs[k].batch)}
        \cup {jb \in pool : jb.type = "DelayedCall" /\ c \in Range(jb.batch)}

\* C6: every connection that was added and then closed is eventually freed,
\* exactly once, and its entry is gone from the table.  Only the close call
\* that wins the exchange inserts the connection into the list, so the
\* connection can be freed only while it stays on the way to freeConnections:
\* once its close call has returned it is in layer->deletes, in the batch
\* getJobs holds, in the batch of a DelayedCall job not yet run, or it was
\* freed once with its entry gone.
C6_ClosedEventuallyFreed ==
    Alive =>
        \A c \in Conns :
            CloseReturned(c) =>
                \/ freeCnt[c] = 0 /\ Count(deletes, c) = 1
                \/ freeCnt[c] = 0 /\ c \in Range(ldeletes) \cup Range(last_delete.nodes)
                \/ freeCnt[c] = 0 /\ PendingFree(c) # {}
                \/ freeCnt[c] = 1 /\ c \notin TableConns

C8_OneJobPerEntry ==
    pc \in {"read", "ret", "crashed"} =>
        /\ Len(DataJobs) = Len(processed)
        /\ \A k \in 1..Len(processed) :
              /\ DataJobs[k].conn = processed[k].conn
              /\ DataJobs[k].type = (IF processed[k].rc = "Good" /\ processed[k].len # -1
                                     THEN "BinaryMessage" ELSE "CloseConnection")
              /\ DataJobs[k].len = processed[k].len

\* the order of the connection states
Rank(st) == CASE st = "None" -> 0 [] st = "Opening" -> 1 [] st = "Open" -> 2
              [] st = "Closed" -> 3

\* C9: the state of a connection only moves forward, Opening -> Open -> Closed;
\* once Closed, no step of the network layer sets it to another value.
C9_StateMonotonic ==
    [][\A c \in Conns : Rank(conns'[c].state) >= Rank(conns[c].state)]_vars

\* a closed connection, inserted into the list, on which a further close call
\* is about to exchange the state
C9_Witness ==
    \E c \in Conns :
        /\ conns[c].state = "Closed"
        /\ pushCnt[c] = 1
        /\ \E t \in Threads : cl[t].conn = c /\ cl[t].pc = "xchg"

\* C10: a cycle in which only the listening descriptor is ready and nothing was
\* drained adds the accepted socket to the table and returns no job; a
\* following cycle in which only that connection is ready, with N bytes
\* received, returns exactly one job, a BinaryMessage job for that connection
\* with a payload of N bytes.
C10_AcceptThenMessage ==
    pc \in {"ret", "crashed"} =>
        /\ (rsel = 1 /\ fdset = {serversockfd} /\ batch = <<>> /\ newsockfd >= 0) =>
              /\ accepted # NULL
              /\ mappings[Len(mappings)] = [connection |-> accepted, sockfd |-> newsockfd]
              /\ jobs = <<>>
        /\ (/\ prevAccepted # NULL
            /\ rsel = 1
            /\ fdset = {conns[prevAccepted].sockfd}
            /\ Len(processed) = 1
            /\ processed[1].rcv > 0) =>
              /\ pc = "ret"
              /\ Len(jobs) = 1
              /\ jobs[1].type = "BinaryMessage"
              /\ jobs[1].conn = prevAccepted
              /\ jobs[1].len = processed[1].rcv

\* C11: stop returns exactly one CloseConnection job for each connection still
\* in the table once the entries of the list it took are removed, the count it
\* returns is the size of that table, and no job is for a connection that was
\* closed and taken from the list.
C11_StopJobs ==
    pc = "stop_ret" =>
        /\ Len(jobs) = Len(mappings)
        /\ \A k \in 1..Len(jobs) :
              /\ jobs[k].type = "CloseConnection"
              /\ jobs[k].conn = mappings[k].connection
              /\ drainCnt[jobs[k].conn] = 0

\* C12: when teardown returns, after stop and the execution of every job, every
\* connection ServerNetworkLayerTCP_add created has been freed.
C12_AllFreedAfterTeardown ==
    pc = "deleted" => \A c \in 1..nConns : c \in freed

\* C15: the table holds at most one entry per socket descriptor.
C15_OneEntryPerFd ==
    \A i, j \in 1..Len(mappings) :
        mappings[i].sockfd = mappings[j].sockfd => i = j

\* C17: each connection is freed at most once over the whole run, by a
\* DelayedCall job or by teardown.
C17_FreedAtMostOnce ==
    \A c \in Conns : freeCnt[c] <= 1

\* C18: getJobs writes no job outside the array it allocated: the jobs written
\* fit the array of (clamped R) + (1 if a batch was taken), and no job is
\* written when the allocation of the array failed.
C18_WritesWithinArray ==
    /\ pc \in {"read", "recv_close", "ret"} => Len(jobs) <= itemsCap
    /\ items = "null" => pc # "crashed" /\ jobs = <<>>

\* the table the walk leaves when a node without an entry is skipped
RECURSIVE SkipMissing(_, _)
SkipMissing(m, d) ==
    IF d = <<>> THEN m
    ELSE LET i == FindFd(m, conns[Head(d)].sockfd)
         IN  IF i > Len(m)
             THEN SkipMissing(m, Tail(d))
             ELSE SkipMissing(Splice(m, i), Tail(d))

\* C16: removeMappings terminates for every list and every table: a node whose
\* descriptor has no entry is skipped and the walk goes on with the next node;
\* a found entry is overwritten with the last entry and the size decremented.
C16_RemoveMappingsTerminates ==
    [][pc = "remove" => (pc' = "removed" /\ mappings' = SkipMissing(mappings, deletes))]_vars

\* the call of ClientNetworkLayerTCP_connect returned a failure
ConnectFailed ==
    cpc \in {"fail_size", "fail_scheme", "fail_port", "fail_socket", "fail_dns",
             "fail_connect"}

\* C13: when connect fails at any step, the state of the connection returned
\* was never set to Opening and no descriptor the call opened is still open;
\* only a successful call returns the state Opening with the callbacks wired.
C13_FailedConnectLeavesNothing ==
    /\ ConnectFailed => connection.state # "Opening" /\ clientFds = {}
    /\ connection.state = "Opening" =>
          cpc = "ok" /\ connection.close = "ClientNetworkLayerClose"

\* an address the tests must refuse: shorter than 11 or longer than 511
\* characters, not starting with opc.tcp://, without a colon after the scheme,
\* or with a port that parses to 0
BadAddress(url) ==
    \/ Len(url) < 11
    \/ Len(url) > 511
    \/ SubSeq(url, 1, 10) # Scheme
    \/ \A q \in 11..Len(url) : url[q] # ":"
    \/ LET q == Min({k \in 11..Len(url) : url[k] = ":"}) IN atoi(url, q + 1) = 0

\* C14: connect given such an address fails before any socket descriptor is
\* created.
C14_BadAddressNoSocket ==
    BadAddress(endpointUrl) =>
        /\ cpc \in {"off", "parse", "fail_size", "fail_scheme", "fail_port"}
        /\ clientFds = {}
        /\ connection.sockfd = -1

\* the call returned for an address of the right scheme and size whose port
\* is 0, and for an address longer than 511 characters
C14_Witness ==
    \/ cpc = "fail_port" /\ PortPos(endpointUrl) # 0
    \/ cpc = "fail_size" /\ Len(endpointUrl) > 511

\* C20: when socket_write returns Good, the bytes the socket has taken are the
\* first buflen bytes of the buffer, each once and in order, whatever the
\* partial sends and the repeated calls.
C20_WriteSendsBufferOnce ==
    wpc = "Good" => wire = Bytes(buflen)

\* the socket_recv call of the current cycle that the step just made
LastRecv == processed'[Len(processed')]

\* C19: socket_recv maps the result of recv to status and effect: a would-block
\* error fails with the communication status and leaves the state of the
\* connection and the list unchanged; a zero-byte result or any other error
\* calls the close callback (the state is Closed, the connection is inserted
\* into the list by the close call that won) and fails with ConnectionClosed.
C19_RecvMapping ==
    /\ [](pc \in {"read", "ret"} =>
            \A k \in 1..Len(processed) :
                processed[k].rc = "BadConnectionClosed" =>
                    /\ conns[processed[k].conn].state = "Closed"
                    /\ \/ pushCnt[processed[k].conn] >= 1
                       \/ \E t \in Threads : cl[t].conn = processed[k].conn)
    /\ [][(Len(processed') = Len(processed) + 1 /\ LastRecv.rc = "BadCommunicationError")
             => UNCHANGED <<conns, deletes, closeCnt, pushCnt>>]_vars

\* C22: a call of getJobs accepts at most one connection: between the drain
\* and the return the table grows at most once, by one entry, in the accept
\* step; and the accept event produces no job: when the listening descriptor
\* was set, the array holds at most rsel - 1 jobs of the read loop, none of
\* them for the connection just accepted.
C22_AcceptAtMostOne ==
    /\ [](pc = "ret" =>
            /\ (serversockfd \in fdset => Len(DataJobs) <= Max(rsel - 1, 0))
            /\ (accepted # NULL => \A k \in 1..Len(jobs) : jobs[k].conn # accepted))
    /\ [][/\ (Len(mappings') > Len(mappings)) =>
                 (/\ Len(mappings') = Len(mappings) + 1
                  /\ pc = "accept"
                  /\ accepted = NULL
                  /\ accepted' # NULL)
          /\ (accepted # NULL /\ accepted' = NULL) => (pc = "ret" /\ pc' = "idle")]_vars

\* a call that returns with a connection accepted and a job of the read loop
\* for every other descriptor select reported
C22_Witness ==
    /\ pc = "ret"
    /\ accepted # NULL
    /\ serversockfd \in fdset
    /\ rsel >= 2
    /\ Len(DataJobs) = rsel - 1

\* C21: calls of the close callback of a client connection that is open, made
\* one after the other or at the same time by two threads, perform exactly one
\* OS-level shutdown+close: only one caller gets past the test for Closed, and
\* once a call has returned the socket was shut down and closed once.
C21_ClientCloseOnce ==
    /\ shutCnt <= 1
    /\ Cardinality({t \in Closers : ccl[t] \in {"set", "socket_close"}}) <= 1
    /\ ((callCnt >= 1 /\ \A t \in Closers : ccl[t] = "idle") => shutCnt = 1)

====
